---- MODULE Spec2Model ----
(***************************************************************************)
(* A model of read_gsheet.py: the spreadsheet -> PostgreSQL batch job.     *)
(*                                                                         *)
(* A DataFrame is a sequence of rows, each row a function from the frame's *)
(* column names to cell values.  Cell values are strings: the text cells   *)
(* that gspread's get_all_records returns, the pandas Timestamp that       *)
(* pd.to_datetime makes of a parseable text, pandas.NaT, and Python None   *)
(* (SQL NULL).  The database is modelled at the level psycopg2 shows it:   *)
(* per table its columns, unique indexes and rows, a transaction that is   *)
(* idle or aborted, and the committed state.                               *)
(***************************************************************************)
EXTENDS Integers, Sequences, FiniteSets, TLC

VARIABLES pc, conn, txn, committed, io, failure, closes, afterClose,
          sheets, sheet, call, hashed

vars == <<pc, conn, txn, committed, io, failure, closes, afterClose,
          sheets, sheet, call, hashed>>

\* ------------------------------------------------------------------ bounds
\* Rows per fetched worksheet.
MaxRows == 2
\* Worksheets processed in one run (calls of insert_new_rows on one connection).
MaxSheets == 2

\* ------------------------------------------------------------------ values
\* pandas.NaT, the missing timestamp pd.to_datetime(errors="coerce") returns.
NaT == "<pandas.NaT>"
\* Python None, sent to PostgreSQL as NULL.
None == "<None>"
\* The pandas Timestamp of 2024-01-01 00:00:00.
Timestamp20240101 == "<Timestamp 2024-01-01 00:00:00>"

Tables == {"t1", "t2"}

\* The rows a fetched worksheet is made of: text cells under one header row.
SheetRows ==
    { [cdn |-> "A", val |-> "x"], [cdn |-> "A", val |-> "y"],
      [cdn |-> "B", val |-> "x"],
      [cdn |-> "A"], [cdn |-> "NaT"],
      [CDN |-> "A"],
      [name |-> "bob"], [name |-> "amy"],
      [created_at |-> "2024-01-01"], [created_at |-> "n/a"], [created_at |-> ""],
      [Created_At |-> "2024-01-01"], [Created_At |-> "n/a"],
      [Timestamp |-> "n/a"],
      [name |-> "bob", _row_hash |-> "h1"], [name |-> "amy", _row_hash |-> "h1"],
      [name |-> "bob", _row_hash |-> "NaT"] }

\* The header rows of the worksheets.
ColumnSets == { DOMAIN r : r \in SheetRows }

RowsOf(K) == { r \in SheetRows : DOMAIN r = K }

\* pd.DataFrame(ws.get_all_records()): no rows (empty) or 1..MaxRows rows over
\* one header.
Batches ==
    {<< >>} \cup
    UNION { UNION { [1..n -> RowsOf(K)] : n \in 1..MaxRows } : K \in ColumnSets }

NonEmptyBatches == Batches \ {<< >>}

\* df.columns
Columns(df) == IF df = << >> THEN {} ELSE DOMAIN df[1]

\* str.lower().  The names with an upper-case letter are tabulated: the
\* spellings of the names lines 104, 121, 131 and 157 test for, and the
\* headers of SheetRows; every other name here has no upper-case letter and
\* is its own lower-case form.
Lower(c) ==
    CASE c = "CDN" -> "cdn"
      [] c = "Cdn" -> "cdn"
      [] c = "Created_At" -> "created_at"
      [] c = "Created_at" -> "created_at"
      [] c = "CREATED_AT" -> "created_at"
      [] c = "Timestamp" -> "timestamp"
      [] c = "TIMESTAMP" -> "timestamp"
      [] c = "Submitted At" -> "submitted at"
      [] c = "Submitted at" -> "submitted at"
      [] c = "SUBMITTED AT" -> "submitted at"
      [] c = "Submitted_At" -> "submitted_at"
      [] c = "Submitted_at" -> "submitted_at"
      [] c = "SUBMITTED_AT" -> "submitted_at"
      [] OTHER -> c

\* pd.isna(v)
IsNa(v) == v \in {NaT, None}

\* str(v): a Timestamp prints as date and time, a text as itself.
PyStr(v) == IF v = Timestamp20240101 THEN "2024-01-01 00:00:00" ELSE v

\* ------------------------------------------------------- coerce_timestamps
\* pd.to_datetime(v, errors="coerce")
ToDatetime(v) ==
    IF v \in {"2024-01-01", Timestamp20240101} THEN Timestamp20240101 ELSE NaT

TimestampCandidates ==
    {"Submitted At", "submitted at", "submitted_at", "Timestamp", "timestamp",
     "created_at"}

coerce_timestamps(df) ==
    [i \in DOMAIN df |->
        [c \in Columns(df) |->
            IF c \in TimestampCandidates THEN ToDatetime(df[i][c]) ELSE df[i][c]]]

\* --------------------------------------------------------- ensure_row_hash
\* sorted() over the column names in use (code point order).
KeyOrder ==
    <<"CDN", "Created_At", "Timestamp", "_row_hash", "cdn", "created_at",
      "name", "val">>

SortedKeys(K) ==
    LET In(k) == k \in K IN SelectSeq(KeyOrder, In)

Quote == "\""

RECURSIVE JsonItems(_, _)
\* The items of json.dumps(payload, sort_keys=True): "k": "v", joined by ", ".
JsonItems(keys, payload) ==
    IF keys = << >> THEN ""
    ELSE LET k == Head(keys)
             item == Quote \o k \o "\": \"" \o payload[k] \o Quote
         IN IF Len(keys) = 1 THEN item
            ELSE item \o ", " \o JsonItems(Tail(keys), payload)

JsonDumps(payload) == "{" \o JsonItems(SortedKeys(DOMAIN payload), payload) \o "}"

\* hashlib.sha256(blob).hexdigest(), taken as injective on the blob.
Sha256Hex(blob) == "sha256(" \o blob \o ")"

\* A mutant of row_to_hash: only the first column enters the digest.
row_to_hash_first_key(row) ==
    LET k == Head(SortedKeys(DOMAIN row))
    IN Sha256Hex(JsonDumps([c \in {k} |-> IF IsNa(row[c]) THEN "" ELSE PyStr(row[c])]))

row_to_hash(row) ==
    LET payload == [k \in DOMAIN row |-> IF IsNa(row[k]) THEN "" ELSE PyStr(row[k])]
    IN Sha256Hex(JsonDumps(payload))

ensure_row_hash(df) ==
    IF "_row_hash" \in Columns(df) THEN df
    ELSE [i \in DOMAIN df |->
            [c \in Columns(df) \cup {"_row_hash"} |->
                IF c = "_row_hash" THEN row_to_hash(df[i]) ELSE df[i][c]]]

\* ---------------------------------------------------------------- database
\* A table of the database: its columns, the columns that carry a unique
\* index, and its rows in insertion order.
NoTable == [exists |-> FALSE, cols |-> {}, idx |-> {}, rows |-> << >>]

EmptyDb == [t \in Tables |-> NoTable]

TimestampAliases == {"submitted at", "submitted_at", "timestamp", "created_at"}

\* The column type create_table_if_not_exists declares for a column name.
ColType(col) == IF Lower(col) \in TimestampAliases THEN "TIMESTAMP" ELSE "TEXT"

PgError == "<error>"

\* PostgreSQL's input conversion of a parameter into a column of the type:
\* a TIMESTAMP column takes a timestamp or a text that reads as one and
\* rejects any other text; NULL goes into any column.
PgStore(type, v) ==
    IF v = None THEN None
    ELSE IF type = "TIMESTAMP"
         THEN IF v \in {Timestamp20240101, "2024-01-01"}
              THEN "2024-01-01 00:00:00" ELSE PgError
         ELSE PyStr(v)

\* CREATE TABLE IF NOT EXISTS
CreateTable(tbl, cols) ==
    IF tbl.exists THEN tbl
    ELSE [exists |-> TRUE, cols |-> cols, idx |-> {}, rows |-> << >>]

\* CREATE UNIQUE INDEX IF NOT EXISTS ... ON tbl (col): fails when the column
\* does not exist or already holds a duplicate non-null value.
CreateUniqueIndex(tbl, col) ==
    IF col \in tbl.idx THEN [ok |-> TRUE, tbl |-> tbl]
    ELSE IF col \notin tbl.cols THEN [ok |-> FALSE, tbl |-> tbl]
    ELSE IF \E i, j \in DOMAIN tbl.rows :
                i # j /\ tbl.rows[i][col] # None /\ tbl.rows[i][col] = tbl.rows[j][col]
         THEN [ok |-> FALSE, tbl |-> tbl]
         ELSE [ok |-> TRUE, tbl |-> [tbl EXCEPT !.idx = @ \cup {col}]]

\* The column names create_table_if_not_exists lower-cases to find "cdn".
Lowered(cols) == { Lower(c) : c \in cols }

create_table_if_not_exists(db, table_name, df) ==
    LET existing_cols == Columns(df) \ {"_row_hash"}
        created == CreateTable(db[table_name], existing_cols \cup {"_row_hash"})
        cdn == IF "cdn" \in Lowered(existing_cols)
               THEN CreateUniqueIndex(created, "cdn")
               ELSE [ok |-> TRUE, tbl |-> created]
        rowhash == CreateUniqueIndex(cdn.tbl, "_row_hash")
    IN IF cdn.ok /\ rowhash.ok
       THEN [ok |-> TRUE, db |-> [db EXCEPT ![table_name] = rowhash.tbl]]
       ELSE [ok |-> FALSE, db |-> db]

\* Line 153: the parameter sent for a cell.
SqlParam(x) == IF IsNa(x) \/ x = "NaT" THEN None ELSE x

\* Line 157: the column named in ON CONFLICT.
conflict_target(cols) == IF "cdn" \in Lowered(cols) THEN "cdn" ELSE "_row_hash"

\* The row PostgreSQL stores for one VALUES tuple: absent columns are NULL.
StoredRow(tbl, cols, row) ==
    [c \in tbl.cols |-> IF c \in cols THEN PgStore(ColType(c), SqlParam(row[c])) ELSE None]

\* Whether a unique index on col rejects the stored row (NULLs never conflict).
Conflicts(tbl, col, stored) ==
    /\ stored[col] # None
    /\ \E i \in DOMAIN tbl.rows : tbl.rows[i][col] = stored[col]

\* A mutant of on_conflict: DO UPDATE, the new row replaces the one it meets.
on_conflict_do_update(tbl, target, stored) ==
    [tbl EXCEPT !.rows =
        [i \in DOMAIN tbl.rows |->
            IF tbl.rows[i][target] = stored[target] THEN stored ELSE tbl.rows[i]]]

\* ON CONFLICT (target) DO NOTHING: the table is left as it is.
on_conflict(tbl, target, stored) == tbl

RECURSIVE InsertRows(_, _, _, _)
\* The rows of one INSERT ... VALUES ... ON CONFLICT (target) DO NOTHING, in
\* order: a row that meets the arbiter index is skipped, a row that breaks a
\* type or another unique index fails the statement.
InsertRows(tbl, cols, rows, target) ==
    IF rows = << >> THEN [ok |-> TRUE, tbl |-> tbl]
    ELSE LET stored == StoredRow(tbl, cols, Head(rows))
         IN IF \E c \in cols : stored[c] = PgError
            THEN [ok |-> FALSE, tbl |-> tbl]
            ELSE IF Conflicts(tbl, target, stored)
            THEN InsertRows(on_conflict(tbl, target, stored), cols, Tail(rows), target)
            ELSE IF \E u \in tbl.idx \ {target} : Conflicts(tbl, u, stored)
            THEN [ok |-> FALSE, tbl |-> tbl]
            ELSE InsertRows([tbl EXCEPT !.rows = Append(@, stored)],
                            cols, Tail(rows), target)

\* execute_values(cursor, sql, values): the statement fails on a column the
\* table lacks and on a conflict target without a unique index.
execute_values(tbl, cols, rows, target) ==
    IF ~(cols \subseteq tbl.cols) \/ target \notin tbl.idx
    THEN [ok |-> FALSE, tbl |-> tbl]
    ELSE InsertRows(tbl, cols, rows, target)

\* insert_new_rows(conn, table_name, df) on a connection whose transaction is
\* tx and whose committed state is db.  outcome: "empty" (returned at once),
\* "committed", "insert_error" (rolled back, raised), "schema_error" (raised
\* out of create_table_if_not_exists, which no handler rolls back: the
\* transaction stays aborted and every later statement fails).
insert_new_rows(db, tx, table_name, df) ==
    IF df = << >> THEN [outcome |-> "empty", db |-> db, txn |-> tx]
    ELSE LET frame == ensure_row_hash(coerce_timestamps(df))
             made == create_table_if_not_exists(db, table_name, frame)
             cols == Columns(frame)
             ins == execute_values(made.db[table_name], cols, frame,
                                   conflict_target(cols))
         IN IF tx = "aborted" \/ ~made.ok
            THEN [outcome |-> "schema_error", db |-> db, txn |-> "aborted"]
            ELSE IF ins.ok
            THEN [outcome |-> "committed",
                  db |-> [made.db EXCEPT ![table_name] = ins.tbl], txn |-> "idle"]
            ELSE [outcome |-> "insert_error", db |-> db, txn |-> "idle"]

\* -------------------------------------------------------------------- state
\* pc         where the run is: "compile" (the file is handed to the
\*            interpreter), "exit_syntax", and in main: "connect_pg",
\*            "connect_gs", "load_config", "groups" (at the head of the
\*            loop of line 188), "sheets" (in the loop of line 199, its
\*            iterable evaluated), "finally", "done"
\* conn       the psycopg2 connection: "none", "open", "closed"
\* txn        its transaction: "idle" or "aborted"
\* committed  the committed state of the database
\* io         the kinds of I/O done so far: "db_connect" (a connection was
\*            opened), "cred_write" (the credential file was written),
\*            "db_stmt" (a statement was sent), "gs_auth", "gs_open",
\*            "gs_fetch" (the call to the spreadsheet service was made,
\*            whether it returned or raised)
\* failure    the fatal error of the run, "none" if none
\* closes     how many times conn.close() ran;  afterClose: a statement,
\*            commit or rollback was issued on a closed connection
\* sheets     the worksheets processed so far (under SpecCalls, the calls of
\*            insert_new_rows made so far)
\* sheet      the last worksheet of main whose frame went to insert_new_rows:
\*            the call's outcome, and the outcome the same call has on a
\*            connection with no failed transaction behind it
\* call       the last direct call of insert_new_rows
\* hashed     the frame ensure_row_hash returned
NoSheet == [outcome |-> "none", alone |-> "none"]

NoCall ==
    [table |-> "t1", df |-> << >>, before |-> NoTable, tx |-> "idle",
     outcome |-> "none", repeat |-> FALSE, prev |-> "none"]

Start(p, c, i) ==
    /\ pc = p
    /\ conn = c
    /\ txn = "idle"
    /\ committed = EmptyDb
    /\ io = i
    /\ failure = "none"
    /\ closes = 0
    /\ afterClose = FALSE
    /\ sheets = 0
    /\ sheet = NoSheet
    /\ hashed = << >>

\* ------------------------------------------------------------ module level
\* A run of the file starts with its compilation.
Init == Start("compile", "none", {}) /\ call = NoCall

\* Line 40 is indented under the assignment of line 39, which opens no
\* block: compiling the file raises IndentationError, whatever the
\* environment, and no statement of it runs; lines 38-41 never test the
\* POSTGRES_* variables and main is not entered.
Compile ==
    /\ pc = "compile"
    /\ pc' = "exit_syntax"
    /\ failure' = "syntax"
    /\ UNCHANGED <<conn, txn, committed, io, closes, afterClose, sheets,
                   sheet, call, hashed>>

Next == Compile

Spec == Init /\ [][Next]_vars

\* --------------------------------------------------------------------- main
\* The body of main, lines 175-223, from its entry: no connection yet.
InitMain == Start("connect_pg", "none", {}) /\ call = NoCall

\* Line 180: connect_postgres returns a connection or raises.
ConnectPostgres ==
    /\ pc = "connect_pg"
    /\ \/ /\ conn' = "open"
          /\ io' = io \cup {"db_connect"}
          /\ pc' = "connect_gs"
          /\ failure' = failure
       \/ /\ pc' = "finally"
          /\ failure' = "pg_connect"
          /\ UNCHANGED <<conn, io>>
    /\ UNCHANGED <<txn, committed, closes, afterClose, sheets, sheet,
                   call, hashed>>

\* Line 181: connect_gsheet, lines 55-73.  Without GOOGLE_CRED it raises
\* before anything is written (lines 57-58); the credential file may not
\* open for writing (line 60); written, it may not be accepted as a key
\* file (line 67); accepted, gspread.authorize is called and may raise
\* (line 68).  Each error is logged and raised again (lines 71-73), and ends
\* the run.
ConnectGsheet ==
    /\ pc = "connect_gs"
    /\ \/ /\ pc' = "finally"
          /\ failure' = "gs_cred"
          /\ io' = io
       \/ /\ pc' = "finally"
          /\ failure' = "gs_connect"
          /\ io' = io
       \/ /\ pc' = "finally"
          /\ failure' = "gs_connect"
          /\ io' = io \cup {"cred_write"}
       \/ /\ pc' = "finally"
          /\ failure' = "gs_connect"
          /\ io' = io \cup {"cred_write", "gs_auth"}
       \/ /\ pc' = "load_config"
          /\ failure' = failure
          /\ io' = io \cup {"cred_write", "gs_auth"}
    /\ UNCHANGED <<conn, txn, committed, closes, afterClose, sheets,
                   sheet, call, hashed>>

\* Lines 183-185: config.json is read and parsed, or the run fails.
LoadConfig ==
    /\ pc = "load_config"
    /\ \/ pc' = "groups" /\ failure' = failure
       \/ pc' = "finally" /\ failure' = "config"
    /\ UNCHANGED <<conn, txn, committed, io, closes, afterClose, sheets,
                   sheet, call, hashed>>

\* Lines 188-199, from the head of the group loop into the worksheet loop.
\* Lines 188-190 are outside the inner try blocks: a config that is no
\* object, or a group entry that is no object or has no "file_name", raises
\* to the outer except and ends the run, whatever earlier groups committed.
\* Else the group's file is opened; a file that cannot be opened is logged
\* and its group skipped.  With the file open, sheet_map.items() of line 199
\* is evaluated, once and outside the try of line 200: a "sheet_file" that
\* is no object raises to the outer except and ends the run before any
\* worksheet of the group is fetched.  After the last group, finally.
NextGroup ==
    /\ pc = "groups"
    /\ \/ /\ io' = io
          /\ pc' = "finally"
          /\ failure' = "group_entry"
       \/ /\ io' = io \cup {"gs_open"}
          /\ pc' = "groups"
          /\ failure' = failure
       \/ /\ io' = io \cup {"gs_open"}
          /\ pc' = "finally"
          /\ failure' = "sheet_map"
       \/ /\ io' = io \cup {"gs_open"}
          /\ pc' = "sheets"
          /\ failure' = failure
       \/ /\ pc' = "finally"
          /\ io' = io
          /\ failure' = failure
    /\ UNCHANGED <<conn, txn, committed, closes, afterClose, sheets,
                   sheet, call, hashed>>

\* Lines 199-213, one worksheet of the loop entered by NextGroup: it is
\* skipped (the fetch raises, which is caught and logged, or the sheet is
\* empty), or its frame goes to insert_new_rows, whose error is caught and
\* logged; after the last worksheet, the next group.  Nothing raised here
\* leaves the loop: the body is one try whose except catches Exception.
ProcessSheet ==
    /\ pc = "sheets"
    /\ \/ /\ sheets < MaxSheets
          /\ sheets' = sheets + 1
          /\ io' = io \cup {"gs_fetch"}
          /\ UNCHANGED <<pc, txn, committed, afterClose, sheet>>
       \/ /\ sheets < MaxSheets
          /\ \E table_name \in Tables, df \in NonEmptyBatches :
                LET r == insert_new_rows(committed, txn, table_name, df)
                    alone == IF txn = "idle" THEN r
                             ELSE insert_new_rows(committed, "idle", table_name, df)
                IN /\ committed' = r.db
                   /\ txn' = r.txn
                   /\ sheet' = [outcome |-> r.outcome, alone |-> alone.outcome]
          /\ sheets' = sheets + 1
          /\ io' = io \cup {"gs_fetch", "db_stmt"}
          /\ afterClose' = (afterClose \/ conn = "closed")
          /\ pc' = pc
       \/ /\ pc' = "groups"
          /\ UNCHANGED <<sheets, io, sheet, txn, committed, afterClose>>
    /\ UNCHANGED <<conn, failure, closes, call, hashed>>

\* A mutant of Finally: the connection is closed only when the run succeeded.
FinallyOnSuccess ==
    /\ pc = "finally"
    /\ pc' = "done"
    /\ IF conn # "none" /\ failure = "none"
       THEN conn' = "closed" /\ closes' = closes + 1
       ELSE UNCHANGED <<conn, closes>>
    /\ UNCHANGED <<txn, committed, io, failure, afterClose, sheets,
                   sheet, call, hashed>>

\* Lines 218-221: finally, the connection, if one was made, is closed.
Finally ==
    /\ pc = "finally"
    /\ pc' = "done"
    /\ IF conn # "none"
       THEN conn' = "closed" /\ closes' = closes + 1
       ELSE UNCHANGED <<conn, closes>>
    /\ UNCHANGED <<txn, committed, io, failure, afterClose, sheets,
                   sheet, call, hashed>>

NextMain ==
    \/ ConnectPostgres
    \/ ConnectGsheet
    \/ LoadConfig
    \/ NextGroup
    \/ ProcessSheet
    \/ Finally

SpecMain == InitMain /\ [][NextMain]_vars

\* ------------------------------------------------- insert_new_rows, called
\* Calls of insert_new_rows, one after the other, on one open connection.
InitCalls == Start("calls", "open", {"db_connect"}) /\ call = NoCall

CallInsertNewRows ==
    /\ pc = "calls"
    /\ sheets < MaxSheets
    /\ \E table_name \in Tables, df \in Batches :
          LET r == insert_new_rows(committed, txn, table_name, df)
          IN /\ committed' = r.db
             /\ txn' = r.txn
             /\ call' = [table |-> table_name, df |-> df,
                         before |-> committed[table_name], tx |-> txn,
                         outcome |-> r.outcome,
                         repeat |-> /\ call.table = table_name
                                    /\ call.df = df
                                    /\ df # << >>
                                    /\ ~call.before.exists,
                         prev |-> call.outcome]
             /\ io' = IF df = << >> THEN io ELSE io \cup {"db_stmt"}
    /\ sheets' = sheets + 1
    /\ afterClose' = (afterClose \/ conn = "closed")
    /\ UNCHANGED <<pc, conn, failure, closes, sheet, hashed>>

NextCalls == CallInsertNewRows

SpecCalls == InitCalls /\ [][NextCalls]_vars

\* ------------------------------------------------------- the hash, applied
\* A frame is drawn, then coerce_timestamps and ensure_row_hash run on it as
\* in lines 147-148.
InitHash ==
    /\ Start("hash", "none", {})
    /\ \E df \in NonEmptyBatches : call = [NoCall EXCEPT !.df = df]

HashRows ==
    /\ pc = "hash"
    /\ pc' = "hashed"
    /\ hashed' = ensure_row_hash(coerce_timestamps(call.df))
    /\ UNCHANGED <<conn, txn, committed, io, failure, closes, afterClose,
                   sheets, sheet, call>>

NextHash == HashRows

SpecHash == InitHash /\ [][NextHash]_vars

\* =================================================================== claims
\* The frame insert_new_rows sends to the database (lines 147-148).
Prepared(df) == ensure_row_hash(coerce_timestamps(df))

\* The value PostgreSQL stores for cell v of column c.
StoredCell(c, v) == PgStore(ColType(c), SqlParam(v))

\* The identity that governs a batch: its "cdn" column, else "_row_hash".
Governing(df) == IF "cdn" \in Columns(df) THEN "cdn" ELSE "_row_hash"

\* The first row of the prepared frame f with the identity of row i.
FirstWith(f, id, i) ==
    CHOOSE j \in DOMAIN f :
        /\ f[j][id] = f[i][id]
        /\ \A k \in DOMAIN f : f[k][id] = f[i][id] => j <= k

\* The table holds exactly one row with the identity of each batch row, and
\* it carries the values of the first batch row with that identity.
FirstWriteWins(tbl, df) ==
    LET f == Prepared(df)
        id == Governing(df)
    IN \A i \in DOMAIN f :
          LET held == { k \in DOMAIN tbl.rows :
                          tbl.rows[k][id] = StoredCell(id, f[i][id]) }
              first == f[FirstWith(f, id, i)]
          IN /\ Cardinality(held) = 1
             /\ \A k \in held : \A c \in Columns(f) :
                    tbl.rows[k][c] = StoredCell(c, first[c])

\* A call on a table that did not exist, on a connection with no failed
\* transaction behind it.
FreshCall == call.df # << >> /\ call.tx = "idle" /\ ~call.before.exists

\* C1 (as claimed): when insert_new_rows is called on a table that does not
\* exist and then again with the same non-empty batch, the second call leaves
\* the table with exactly the rows it had after the first call.
C1_SecondCallAddsNothing ==
    call.repeat => committed[call.table].rows = call.before.rows

\* C2 (as claimed): a batch that was committed and is inserted again is
\* dropped silently, without an error, and the table holds exactly one row
\* per value of the governing identity, the first one written with it.
C2_FirstWriteWinsSilently ==
    (call.repeat /\ call.prev = "committed") =>
        /\ call.outcome = "committed"
        /\ FirstWriteWins(committed[call.table], call.df)

\* C3 (as claimed): every call with a non-empty batch ends either committed,
\* with each batch row's identity persisted, or with an insertion error that
\* was rolled back: the transaction is idle again and the table is what it
\* was before the call.
C3_CommitOrRollback ==
    call.df # << >> =>
        \/ /\ call.outcome = "committed"
           /\ txn = "idle"
           /\ LET f == Prepared(call.df)
                  id == conflict_target(Columns(f))
                  tbl == committed[call.table]
              IN \A i \in DOMAIN f : \E k \in DOMAIN tbl.rows :
                    tbl.rows[k][id] = StoredCell(id, f[i][id])
        \/ /\ call.outcome = "insert_error"
           /\ txn = "idle"
           /\ committed[call.table] = call.before

\* C4 (as claimed): a worksheet whose own data and schema are valid, that is,
\* one insert_new_rows commits on a connection with no failed transaction
\* behind it, is committed whatever happened to the worksheets before it.
C4_ValidSheetCommitted ==
    sheet.alone = "committed" => sheet.outcome = "committed"

\* C5: when connect_postgres returned a connection the run closes it exactly
\* once, at its end, and issues nothing on it afterwards; a connection is
\* closed in no state but the final one.
C5_ClosedExactlyOnce ==
    /\ ~afterClose
    /\ closes <= 1
    /\ (conn = "closed" => pc = "done" /\ closes = 1)
    /\ (pc = "done" /\ "db_connect" \in io => conn = "closed" /\ closes = 1)
    /\ ("db_connect" \notin io => conn = "none" /\ closes = 0)

\* C5 witness: a run that connected, left a worksheet's transaction aborted,
\* and ended with the connection closed.
C5_Witness ==
    pc = "done" /\ conn = "closed" /\ closes = 1 /\ txn = "aborted" /\ sheets = MaxSheets

\* C6: no step removes a committed table or removes or changes a committed
\* row: each table's rows before a step are a prefix of its rows after it.
C6_AppendOnly ==
    [][\A t \in Tables :
          committed[t].exists =>
             /\ committed'[t].exists
             /\ committed'[t].cols = committed[t].cols
             /\ Len(committed'[t].rows) >= Len(committed[t].rows)
             /\ SubSeq(committed'[t].rows, 1, Len(committed[t].rows))
                    = committed[t].rows]_vars

\* C6 witness: rows were committed for a worksheet and a later worksheet
\* failed and was rolled back.
C6_Witness ==
    /\ sheets = MaxSheets
    /\ sheet.outcome = "insert_error"
    /\ \E t \in Tables : Len(committed[t].rows) >= 2

\* C7 (as claimed): a batch with a timestamp-typed column holding a value
\* that cannot be parsed is committed, the value stored as NULL.
C7_UnparseableStoredNull ==
    \A c \in Columns(call.df) :
        (/\ FreshCall
         /\ ColType(c) = "TIMESTAMP"
         /\ \E i \in DOMAIN call.df : ToDatetime(call.df[i][c]) = NaT)
        => /\ call.outcome = "committed"
           /\ \E k \in DOMAIN committed[call.table].rows :
                 committed[call.table].rows[k][c] = None

\* C8 (as claimed): for a batch with a column that is "cdn" in any letter
\* case, the unique index is made on that column and the conflict target is
\* that column; without such a column "_row_hash" is the target and carries
\* the only unique index.
C8_KeyAndTargetAgree ==
    FreshCall =>
        LET cols == Columns(call.df)
            tbl == committed[call.table]
        IN IF \E c \in cols : Lower(c) = "cdn"
           THEN /\ call.outcome # "schema_error"
                /\ conflict_target(cols) \in cols
                /\ (call.outcome = "committed" => conflict_target(cols) \in tbl.idx)
           ELSE /\ conflict_target(cols) = "_row_hash"
                /\ (call.outcome = "committed" => tbl.idx = {"_row_hash"})

\* The text row_to_hash makes of cell v of column c: the cell after
\* coerce_timestamps, a missing value as the empty text.
Rendered(c, v) ==
    LET w == IF c \in TimestampCandidates THEN ToDatetime(v) ELSE v
    IN IF IsNa(w) THEN "" ELSE PyStr(w)

\* A frame without a "_row_hash" column of its own has been hashed.
Hashed == pc = "hashed" /\ "_row_hash" \notin Columns(call.df)

\* C9 (as claimed): two rows of a batch get the same "_row_hash" when they
\* have the same values in all columns and different ones when they differ in
\* at least one column value.
C9_HashSeparatesRows ==
    Hashed =>
        \A i, j \in DOMAIN call.df :
            (hashed[i]["_row_hash"] = hashed[j]["_row_hash"]) <=> (call.df[i] = call.df[j])

\* C9 (amended): in a batch without a "_row_hash" column of its own, two
\* rows get the same "_row_hash" exactly when they agree, column by column,
\* on the text of the cell after timestamp coercion, a missing value
\* counting as the empty text.
C9_HashSeparatesRenderedRows ==
    Hashed =>
        \A i, j \in DOMAIN call.df :
            (hashed[i]["_row_hash"] = hashed[j]["_row_hash"])
                <=> (\A c \in Columns(call.df) :
                        Rendered(c, call.df[i][c]) = Rendered(c, call.df[j][c]))

\* C9 witness: two rows that differ in a column value and get the same hash,
\* beside the hashed frame of two rows that get different ones.
C9_Witness ==
    /\ Hashed
    /\ \E i, j \in DOMAIN call.df :
          /\ call.df[i] # call.df[j]
          /\ hashed[i]["_row_hash"] = hashed[j]["_row_hash"]

\* I/O with the database or the spreadsheet service, and the credential file.
ServiceIO == {"db_connect", "db_stmt", "cred_write", "gs_auth", "gs_open", "gs_fetch"}

\* C10 (as claimed): a run of main that fails on a missing required
\* environment variable (GOOGLE_CRED, lines 57-58) or on a config.json that
\* cannot be read or parsed (lines 183-184) has opened no database
\* connection, written no credential file and made no call to the
\* spreadsheet service.
C10_ConfigErrorsBeforeIO ==
    failure \in {"gs_cred", "config"} => io \cap ServiceIO = {}

====
